---------------------------- MODULE Spec2Model ----------------------------
(***************************************************************************)
(* Door-prize application: the draw endpoint (POST /api/sessions/:id/draws) *)
(* run by concurrent, stateless request handlers against one relational    *)
(* store.  Each handler is a sequence of awaited store calls; the handlers  *)
(* interleave at the awaits.  The store is modelled by its tables and by    *)
(* the unique index Winner(contestantId).                                   *)
(***************************************************************************)
EXTENDS Integers, Sequences, FiniteSets, TLC

(* ------------------------------ bounds --------------------------------- *)

\* Largest JSON-number quantity a modelled request carries (0..MaxQuantity).
MaxQuantity == 3

\* Number of contestants of session "s1" in the initial store.
NumContestants == 3

\* The concurrent draw requests.
Requests == {"r1", "r2"}

(* --------------------------- the initial store -------------------------- *)

NULL == "null"

\* Session ids a request may address; "sX" is the id of no session.
InitSessions == {"s1", "s2"}
SessionIds == InitSessions \cup {"sX"}

NamePool == <<"Ann", "Bob", "Cid", "Dee", "Eve">>

\* Contestant rows: ids 1..NumContestants in "s1", one more contestant in "s2".
InitContestants ==
    {[id |-> i, sessionId |-> "s1", name |-> NamePool[i]] : i \in 1..NumContestants}
        \cup {[id |-> NumContestants + 1, sessionId |-> "s2",
               name |-> NamePool[NumContestants + 1]]}

\* Prize rows: two prizes in "s1", one in "s2".
InitPrizes ==
    {[id |-> "pA", sessionId |-> "s1", name |-> "Bike", quantity |-> 1],
     [id |-> "pB", sessionId |-> "s1", name |-> "Lamp", quantity |-> 2],
     [id |-> "pC", sessionId |-> "s2", name |-> "Mug", quantity |-> 1]}

\* prizeId values of a request body: the prizes, an unknown id, the empty string.
PrizeIdInputs == {"pA", "pB", "pC", "pX", ""}

\* quantity values of a request body: JSON numbers and JSON strings.
QuantityInputs ==
    {[t |-> "number", v |-> n] : n \in 0..MaxQuantity}
        \cup {[t |-> "string", v |-> s] : s \in {"2", "1.5", "abc"}}

BodyInputs == [prizeId : PrizeIdInputs, quantity : QuantityInputs]

(* ------------------------------- state ---------------------------------- *)

VARIABLES
    sessions,             \* table Session: the ids
    contestants,          \* table Contestant
    prizes,               \* table Prize
    draws,                \* table Draw (committed rows)
    winners,              \* table Winner (committed rows)
    pc,                   \* per request: the next awaited step of POST
    sessionId,            \* per request: route parameter
    body,                 \* per request: the JSON body
    parsed,               \* per request: drawSchema.parse(body)
    prize,                \* per request: the prize row read
    eligibleContestants,  \* per request: the eligible rows read (a sequence)
    selected,             \* per request: shuffled.slice(0, quantity)
    createdDraw,          \* per request: the Draw row of the open transaction
    response,             \* per request: the HTTP response
    calls,                \* per request: the store calls made, in order
    txCalls,              \* per request: the calls made through the transaction client
    prizePost,            \* the handler of POST .../prizes: position, inputs, locals, response
    prizesGet,            \* the handler of GET .../prizes: position, inputs, locals, response
    importPost,           \* per import: the handler of POST .../contestants/import
    sessionPost,          \* the handler of POST /api/sessions: its response
    reportGet,            \* the handler of GET .../report.csv and report.txt
    reads                 \* the handler of one of the other GET endpoints

vars == <<sessions, contestants, prizes, draws, winners, pc, sessionId, body,
          parsed, prize, eligibleContestants, selected, createdDraw, response,
          calls, txCalls, prizePost, prizesGet, importPost, sessionPost, reportGet, reads>>

store == <<sessions, contestants, prizes, draws, winners>>

\* The state of the draw requests, and of the other handlers.
drawVars == <<pc, sessionId, body, parsed, prize, eligibleContestants, selected,
              createdDraw, response, calls, txCalls>>
others == <<prizePost, prizesGet, importPost, sessionPost, reportGet, reads>>


(* ------------------------- request validation -------------------------- *)

\* Number(raw) of z.coerce.number(), in tenths so that 1.5 is representable.
CoerceNumber(raw) ==
    IF raw.t = "number" THEN [nan |-> FALSE, tenths |-> raw.v * 10]
    ELSE IF raw.v = "2" THEN [nan |-> FALSE, tenths |-> 20]
    ELSE IF raw.v = "1.5" THEN [nan |-> FALSE, tenths |-> 15]
    ELSE [nan |-> TRUE, tenths |-> 0]

\* Faulty variant of drawSchema: the .min(1) check is missing.
drawSchemaNoMin(b) ==
    LET n == CoerceNumber(b.quantity)
        fail(msg) == [ok |-> FALSE, error |-> msg, prizeId |-> NULL, quantity |-> 0]
    IN  IF b.prizeId = "" THEN fail("prizeId is required")
        ELSE IF n.nan THEN fail("Expected number, received nan")
        ELSE IF n.tenths % 10 # 0 THEN fail("quantity must be an integer")
        ELSE [ok |-> TRUE, error |-> "", prizeId |-> b.prizeId,
              quantity |-> n.tenths \div 10]

\* drawSchema.parse(body): the parsed value, or the first issue's message.
drawSchema(b) ==
    LET n == CoerceNumber(b.quantity)
        fail(msg) == [ok |-> FALSE, error |-> msg, prizeId |-> NULL, quantity |-> 0]
    IN  IF b.prizeId = "" THEN fail("prizeId is required")
        ELSE IF n.nan THEN fail("Expected number, received nan")
        ELSE IF n.tenths % 10 # 0 THEN fail("quantity must be an integer")
        ELSE IF n.tenths < 10 THEN fail("quantity must be at least 1")
        ELSE [ok |-> TRUE, error |-> "", prizeId |-> b.prizeId,
              quantity |-> n.tenths \div 10]

(* ----------------------------- store reads ------------------------------ *)

\* Faulty variant of SessionFindUnique: the handler goes on without a session.
SessionNotChecked(sid) == TRUE

\* prisma.session.findUnique({ where: { id } }): found or not.
SessionFindUnique(sid) == sid \in sessions

\* Faulty variant of PrizeFindFirst: the where clause lacks sessionId.
PrizeFindFirstAnySession(pid, sid) ==
    LET hit == {p \in prizes : p.id = pid}
    IN  IF hit = {} THEN [id |-> NULL, name |-> NULL]
        ELSE LET p == CHOOSE p \in hit : TRUE IN [id |-> p.id, name |-> p.name]

\* prisma.prize.findFirst({ where: { id, sessionId }, select: { id, name } }).
PrizeFindFirst(pid, sid) ==
    LET hit == {p \in prizes : p.id = pid /\ p.sessionId = sid}
    IN  IF hit = {} THEN [id |-> NULL, name |-> NULL]
        ELSE LET p == CHOOSE p \in hit : TRUE IN [id |-> p.id, name |-> p.name]

\* Relation filter { winner: null }: the contestant has no Winner row.
HasWinner(cid) == \E w \in winners : w.contestantId = cid

\* Faulty variant of EligibleRows: the where clause lacks { winner: null }.
EligibleRowsUnfiltered(sid) == {c \in contestants : c.sessionId = sid}

\* The rows prisma.contestant.findMany({ where: { sessionId, winner: null } }) matches.
EligibleRows(sid) ==
    {c \in contestants : c.sessionId = sid /\ ~HasWinner(c.id)}

\* The matched rows as the array the call returns (select id, name), by id.
RowsToArray(rows) ==
    [i \in 1..Cardinality(rows) |->
        LET c == CHOOSE c \in rows : Cardinality({d \in rows : d.id < c.id}) = i - 1
        IN  [id |-> c.id, name |-> c.name]]

\* Faulty variant of ContestantFindMany: the where clause has no sessionId.
ContestantFindManyAnySession(sid) ==
    RowsToArray({c \in contestants : ~HasWinner(c.id)})

ContestantFindMany(sid) == RowsToArray(EligibleRows(sid))

(* ------------------------------- shuffle -------------------------------- *)

Swap(arr, i, j) ==
    [x \in 1..Len(arr) |-> IF x = i THEN arr[j] ELSE IF x = j THEN arr[i] ELSE arr[x]]

\* Faulty variant of ShuffleFrom: j is drawn below i, Math.random() * i for
\* Math.random() * (i + 1).
RECURSIVE ShuffleFromBelow(_, _)
ShuffleFromBelow(arr, i) ==
    IF i <= 1 THEN {arr}
    ELSE UNION {ShuffleFromBelow(swapped, i - 1) :
                    swapped \in {Swap(arr, i, j) : j \in 1..(i - 1)}}

\* The Fisher-Yates loop from (1-based) index i down to 2, j drawn from 1..i:
\* every array it can return.
RECURSIVE ShuffleFrom(_, _)
ShuffleFrom(arr, i) ==
    IF i <= 1 THEN {arr}
    ELSE UNION {ShuffleFrom(swapped, i - 1) : swapped \in {Swap(arr, i, j) : j \in 1..i}}

shuffle(items) == UNION {ShuffleFrom(arr, Len(arr)) : arr \in {items}}

\* Faulty variant of Choices: j is drawn from the whole array in every round,
\* Math.random() * arr.length for Math.random() * (i + 1).
ChoicesOfWholeArray(n) == [2..n -> 1..n]

\* The values of j of one run of the loop on an array of n elements: for every
\* i from n down to 2 one of the i values of Math.floor(Math.random() * (i + 1)).
Choices(n) == {choice \in [2..n -> 1..n] : \A i \in 2..n : choice[i] <= i}

\* The array the loop returns when it draws j = choice[i] in round i.
RECURSIVE ShuffleWith(_, _, _)
ShuffleWith(arr, i, choice) ==
    IF i <= 1 THEN arr
    ELSE CHOOSE result \in {ShuffleWith(swapped, i - 1, choice) :
                                swapped \in {Swap(arr, i, choice[i])}} : TRUE

\* Faulty variant of Slice: one element too many.
SliceOneMore(arr, k) == SubSeq(arr, 1, IF k + 1 < Len(arr) THEN k + 1 ELSE Len(arr))

\* arr.slice(0, k)
Slice(arr, k) == SubSeq(arr, 1, IF k < Len(arr) THEN k ELSE Len(arr))

(* ------------------------------ store writes ---------------------------- *)

\* tx.draw.create({ data: { sessionId, prizeId } }); the generated id is unique,
\* here the name of the creating request.
NewDraw(r, sid, pid) == [id |-> r, sessionId |-> sid, prizeId |-> pid]

NoDraw == [id |-> NULL, sessionId |-> NULL, prizeId |-> NULL]

\* Faulty variant of WinnerRows: the first selected contestant gets no row.
WinnerRowsButFirst(sel, d, pz) ==
    {[contestantId |-> sel[i].id, drawId |-> d.id, prizeName |-> pz.name] :
        i \in 2..Len(sel)}

\* The data of tx.winner.createMany: one row per selected contestant.
WinnerRows(sel, d, pz) ==
    {[contestantId |-> sel[i].id, drawId |-> d.id, prizeName |-> pz.name] :
        i \in 1..Len(sel)}

\* Faulty variant of UniqueViolation: no unique index on Winner.
UniqueViolationNoIndex(rows) == FALSE

\* Faulty variant of UniqueViolation: the index is on (drawId, contestantId).
UniqueViolationPerDraw(rows) ==
    \E row \in rows : \E w \in winners :
        w.contestantId = row.contestantId /\ w.drawId = row.drawId

\* Unique index Winner_contestantId_key: the insert hits an existing key (P2002).
UniqueViolation(rows) ==
    \E row \in rows : \E w \in winners : w.contestantId = row.contestantId

\* Faulty variant of DrawsAfterTransaction: the Draw row is created outside
\* the transaction.
DrawsOutsideTransaction(failed, d) == draws \cup {d}

\* The Draw table after prisma.$transaction: the created row is kept only if
\* the callback did not throw.
DrawsAfterTransaction(failed, d) == IF failed THEN draws ELSE draws \cup {d}

\* Faulty variant of WinnersAfterTransaction: createMany with skipDuplicates
\* keeps the rows that did not collide.
WinnersSkipDuplicates(failed, rows) ==
    winners \cup {row \in rows : \A w \in winners : w.contestantId # row.contestantId}

\* The Winner table after prisma.$transaction.
WinnersAfterTransaction(failed, rows) == IF failed THEN winners ELSE winners \cup rows


(* ------------------------- POST .../draws, by step ---------------------- *)

NoBody == [prizeId |-> "", quantity |-> [t |-> "number", v |-> 0]]
NoParsed == [prizeId |-> NULL, quantity |-> 0]
NoPrize == [id |-> NULL, name |-> NULL]
NoResponse == [status |-> 0, error |-> ""]

Json(status, error) == [status |-> status, error |-> error]

\* Faulty variant of QuantityExceeds: off by one.
QuantityExceedsByTwo(quantity, eligibleCount) == quantity > eligibleCount + 1

\* The guard of the eligible-count check.
QuantityExceeds(quantity, eligibleCount) == quantity > eligibleCount

Respond(r, res) ==
    /\ response' = [response EXCEPT ![r] = res]
    /\ pc' = [pc EXCEPT ![r] = "done"]

\* Faulty variant of Client: the eligibility read goes through tx as well.
ClientReadInTransaction(call) ==
    IF call \in {"contestant.findMany", "draw.create", "winner.createMany"}
        THEN "tx" ELSE "prisma"

\* The client a store call of POST is made on: tx inside the callback of
\* prisma.$transaction, prisma elsewhere.
Client(call) ==
    IF call \in {"draw.create", "winner.createMany"} THEN "tx" ELSE "prisma"

Called(r, call) ==
    /\ calls' = [calls EXCEPT ![r] = Append(@, call)]
    /\ txCalls' = [txCalls EXCEPT ![r] =
                      IF Client(call) = "tx" THEN Append(@, call) ELSE @]

\* The concurrent CSV imports.
Imports == {"i1", "i2"}

\* The other handlers before their request arrives.
NoPrizePost ==
    [pc |-> "start", sessionId |-> NULL, name |-> "",
     quantity |-> [t |-> "number", v |-> 0], eligibleCount |-> 0,
     status |-> 0, error |-> "", id |-> NULL]
NoPrizesGet ==
    [pc |-> "start", sessionId |-> NULL, prizes |-> {}, status |-> 0, listing |-> {}]
NoImportPost ==
    [pc |-> "start", sessionId |-> NULL, file |-> <<>>, uniqueNames |-> <<>>,
     namesToInsert |-> <<>>, status |-> 0, inserted |-> 0]
NoSessionPost == [status |-> 0, id |-> NULL]
NoReportGet ==
    [pc |-> "start", sessionId |-> NULL, format |-> "csv", status |-> 0, lines |-> {}]

NoRead ==
    [endpoint |-> NULL, pc |-> "start", sessionId |-> NULL, drawId |-> NULL,
     status |-> 0, data |-> {}]

InitOthers ==
    /\ prizePost = NoPrizePost
    /\ prizesGet = NoPrizesGet
    /\ importPost = [i \in Imports |-> NoImportPost]
    /\ sessionPost = NoSessionPost
    /\ reportGet = NoReportGet
    /\ reads = NoRead

Init ==
    /\ InitOthers
    /\ sessions = InitSessions
    /\ contestants = InitContestants
    /\ prizes = InitPrizes
    /\ draws = {}
    /\ winners = {}
    /\ pc = [r \in Requests |-> "start"]
    /\ sessionId = [r \in Requests |-> NULL]
    /\ body = [r \in Requests |-> NoBody]
    /\ parsed = [r \in Requests |-> NoParsed]
    /\ prize = [r \in Requests |-> NoPrize]
    /\ eligibleContestants = [r \in Requests |-> <<>>]
    /\ selected = [r \in Requests |-> <<>>]
    /\ createdDraw = [r \in Requests |-> NoDraw]
    /\ response = [r \in Requests |-> NoResponse]
    /\ calls = [r \in Requests |-> <<>>]
    /\ txCalls = [r \in Requests |-> <<>>]

\* Faulty variant of PostFindSession: the body is validated before the session
\* is looked up.
PostFindSessionParseFirst(r) ==
    /\ pc[r] = "start"
    /\ \E sid \in SessionIds, b \in BodyInputs :
        /\ sessionId' = [sessionId EXCEPT ![r] = sid]
        /\ body' = [body EXCEPT ![r] = b]
        /\ IF ~drawSchema(b).ok
              THEN /\ Respond(r, Json(400, drawSchema(b).error))
                   /\ UNCHANGED <<calls, txCalls>>
              ELSE /\ Called(r, "session.findUnique")
                   /\ IF ~SessionFindUnique(sid)
                         THEN Respond(r, Json(404, "Session not found"))
                         ELSE /\ pc' = [pc EXCEPT ![r] = "parse"]
                              /\ UNCHANGED response
    /\ UNCHANGED others
    /\ UNCHANGED <<store, parsed, prize, eligibleContestants, selected, createdDraw>>

\* The request arrives with its route parameter and body; the session lookup.
PostFindSession(r) ==
    /\ pc[r] = "start"
    /\ \E sid \in SessionIds, b \in BodyInputs :
        /\ sessionId' = [sessionId EXCEPT ![r] = sid]
        /\ body' = [body EXCEPT ![r] = b]
        /\ Called(r, "session.findUnique")
        /\ IF ~SessionFindUnique(sid)
              THEN Respond(r, Json(404, "Session not found"))
              ELSE /\ pc' = [pc EXCEPT ![r] = "parse"]
                   /\ UNCHANGED response
    /\ UNCHANGED others
    /\ UNCHANGED <<store, parsed, prize, eligibleContestants, selected, createdDraw>>

\* req.json() and drawSchema.parse.
PostParse(r) ==
    /\ pc[r] = "parse"
    /\ LET p == drawSchema(body[r])
       IN  IF ~p.ok
              THEN /\ Respond(r, Json(400, p.error))
                   /\ UNCHANGED parsed
              ELSE /\ parsed' = [parsed EXCEPT ![r] =
                                    [prizeId |-> p.prizeId, quantity |-> p.quantity]]
                   /\ pc' = [pc EXCEPT ![r] = "findPrize"]
                   /\ UNCHANGED response
    /\ UNCHANGED others
    /\ UNCHANGED <<store, sessionId, body, prize, eligibleContestants, selected,
                   createdDraw, calls, txCalls>>

\* The prize lookup.
PostFindPrize(r) ==
    /\ pc[r] = "findPrize"
    /\ Called(r, "prize.findFirst")
    /\ LET found == PrizeFindFirst(parsed[r].prizeId, sessionId[r])
       IN  IF found.id = NULL
              THEN /\ Respond(r, Json(404, "Prize not found"))
                   /\ UNCHANGED prize
              ELSE /\ prize' = [prize EXCEPT ![r] = found]
                   /\ pc' = [pc EXCEPT ![r] = "findEligible"]
                   /\ UNCHANGED response
    /\ UNCHANGED others
    /\ UNCHANGED <<store, sessionId, body, parsed, eligibleContestants, selected,
                   createdDraw>>

\* Faulty variant of PostFindEligible: the quantity is also checked against the
\* units the prize has left.
PostFindEligibleBounded(r) ==
    /\ pc[r] = "findEligible"
    /\ Called(r, "contestant.findMany")
    /\ LET eligible == ContestantFindMany(sessionId[r])
           drawn == Cardinality({w \in winners : \E d \in draws :
                        d.id = w.drawId /\ d.prizeId = prize[r].id})
           left == (CHOOSE p \in prizes : p.id = prize[r].id).quantity - drawn
       IN  /\ eligibleContestants' = [eligibleContestants EXCEPT ![r] = eligible]
           /\ IF parsed[r].quantity > Len(eligible) \/ parsed[r].quantity > left
                 THEN /\ Respond(r, Json(400, "Requested quantity exceeds eligible contestants"))
                      /\ UNCHANGED selected
                 ELSE /\ \E shuffled \in shuffle(eligible) :
                            selected' = [selected EXCEPT ![r] =
                                            Slice(shuffled, parsed[r].quantity)]
                      /\ pc' = [pc EXCEPT ![r] = "txDrawCreate"]
                      /\ UNCHANGED response
    /\ UNCHANGED others
    /\ UNCHANGED <<store, sessionId, body, parsed, prize, createdDraw>>

\* The eligibility read, the count check, the shuffle and the slice.
PostFindEligible(r) ==
    /\ pc[r] = "findEligible"
    /\ Called(r, "contestant.findMany")
    /\ LET eligible == ContestantFindMany(sessionId[r])
       IN  /\ eligibleContestants' = [eligibleContestants EXCEPT ![r] = eligible]
           /\ IF QuantityExceeds(parsed[r].quantity, Len(eligible))
                 THEN /\ Respond(r, Json(400, "Requested quantity exceeds eligible contestants"))
                      /\ UNCHANGED selected
                 ELSE /\ \E shuffled \in shuffle(eligible) :
                            selected' = [selected EXCEPT ![r] =
                                            Slice(shuffled, parsed[r].quantity)]
                      /\ pc' = [pc EXCEPT ![r] = "txDrawCreate"]
                      /\ UNCHANGED response
    /\ UNCHANGED others
    /\ UNCHANGED <<store, sessionId, body, parsed, prize, createdDraw>>

\* Faulty variant of DrawResponse: the winners are listed from the shuffled
\* eligible contestants, not from the selected ones.
DrawResponseOfEligible(r) ==
    [drawId |-> createdDraw[r].id,
     sessionId |-> sessionId[r],
     prize |-> [id |-> prize[r].id, name |-> prize[r].name],
     requestedQuantity |-> parsed[r].quantity,
     eligibleBefore |-> Len(eligibleContestants[r]),
     winners |-> [i \in 1..Len(eligibleContestants[r]) |->
                    [contestantId |-> eligibleContestants[r][i].id,
                     name |-> eligibleContestants[r][i].name,
                     prizeName |-> prize[r].name]]]

\* The body of the 200 response, from the handler's values when it responds;
\* createdAt is not part of the model.
DrawResponse(r) ==
    [drawId |-> createdDraw[r].id,
     sessionId |-> sessionId[r],
     prize |-> [id |-> prize[r].id, name |-> prize[r].name],
     requestedQuantity |-> parsed[r].quantity,
     eligibleBefore |-> Len(eligibleContestants[r]),
     winners |-> [i \in 1..Len(selected[r]) |->
                    [contestantId |-> selected[r][i].id,
                     name |-> selected[r][i].name,
                     prizeName |-> prize[r].name]]]

\* Faulty variant of TxDrawCreate: the transaction opens only while no other
\* request is inside its transaction.
TxDrawCreateExclusive(r) ==
    /\ pc[r] = "txDrawCreate"
    /\ \A q \in Requests \ {r} : pc[q] # "txWinnerCreateMany"
    /\ Called(r, "draw.create")
    /\ createdDraw' = [createdDraw EXCEPT ![r] = NewDraw(r, sessionId[r], prize[r].id)]
    /\ pc' = [pc EXCEPT ![r] = "txWinnerCreateMany"]
    /\ UNCHANGED others
    /\ UNCHANGED <<store, sessionId, body, parsed, prize, eligibleContestants,
                   selected, response>>

\* prisma.$transaction opens; tx.draw.create: the row is not yet committed.
TxDrawCreate(r) ==
    /\ pc[r] = "txDrawCreate"
    /\ Called(r, "draw.create")
    /\ createdDraw' = [createdDraw EXCEPT ![r] = NewDraw(r, sessionId[r], prize[r].id)]
    /\ pc' = [pc EXCEPT ![r] = "txWinnerCreateMany"]
    /\ UNCHANGED others
    /\ UNCHANGED <<store, sessionId, body, parsed, prize, eligibleContestants,
                   selected, response>>

\* Faulty variant of TxWinnerCreateMany: after P2002 the handler reads the
\* eligible contestants again and draws once more.
TxWinnerCreateManyRetrying(r) ==
    /\ pc[r] = "txWinnerCreateMany"
    /\ Called(r, "winner.createMany")
    /\ LET rows == WinnerRows(selected[r], createdDraw[r], prize[r])
           failed == UniqueViolation(rows)
       IN  /\ draws' = DrawsAfterTransaction(failed, createdDraw[r])
           /\ winners' = WinnersAfterTransaction(failed, rows)
           /\ IF failed
                 THEN /\ pc' = [pc EXCEPT ![r] = "findEligible"]
                      /\ UNCHANGED response
                 ELSE Respond(r, Json(200, ""))
    /\ UNCHANGED others
    /\ UNCHANGED <<sessions, contestants, prizes, sessionId, body, parsed, prize,
                   eligibleContestants, selected, createdDraw>>

\* tx.winner.createMany and the end of the transaction: commit and the 200
\* response, or P2002, rollback and the 409 response.
\* The insert and the commit are one step: the store makes an insert that meets
\* an uncommitted row of the same key wait for that row's outcome, so the insert
\* is decided against committed rows only.  Store failures other than P2002
\* (the rethrown errors) are not modelled.
TxWinnerCreateMany(r) ==
    /\ pc[r] = "txWinnerCreateMany"
    /\ Called(r, "winner.createMany")
    /\ LET rows == WinnerRows(selected[r], createdDraw[r], prize[r])
           failed == UniqueViolation(rows)
       IN  /\ draws' = DrawsAfterTransaction(failed, createdDraw[r])
           /\ winners' = WinnersAfterTransaction(failed, rows)
           /\ IF failed
                 THEN Respond(r, Json(409, "Contestant already has a prize. Please refresh and try again."))
                 ELSE Respond(r, Json(200, ""))
    /\ UNCHANGED others
    /\ UNCHANGED <<sessions, contestants, prizes, sessionId, body, parsed, prize,
                   eligibleContestants, selected, createdDraw>>

Next ==
    \E r \in Requests :
        \/ PostFindSession(r)
        \/ PostParse(r)
        \/ PostFindPrize(r)
        \/ PostFindEligible(r)
        \/ TxDrawCreate(r)
        \/ TxWinnerCreateMany(r)

Spec == Init /\ [][Next]_vars


(* --------------------------- POST .../prizes ---------------------------- *)

\* One step of a draw request.
DrawStep(r) ==
    \/ PostFindSession(r)
    \/ PostParse(r)
    \/ PostFindPrize(r)
    \/ PostFindEligible(r)
    \/ TxDrawCreate(r)
    \/ TxWinnerCreateMany(r)

\* Draw requests to session s1 or to no session, on prize pB or on no prize,
\* with a JSON-number quantity.
DrawInputsFew(r) ==
    /\ sessionId'[r] \in {"s1", "sX"}
    /\ body'[r].prizeId \in {"pB", "pX"}
    /\ body'[r].quantity \in {[t |-> "number", v |-> n] : n \in 0..MaxQuantity}

NextFew == \E r \in Requests : DrawStep(r) /\ DrawInputsFew(r)

SpecFew == Init /\ [][NextFew]_vars

\* The runtime resumes every handler whose awaited store call has returned, and
\* the store answers every call.
SpecFair == SpecFew /\ \A r \in Requests : WF_vars(DrawStep(r) /\ DrawInputsFew(r))

\* name and quantity values of the body of a prize creation.
PrizeNameInputs == {"", " ", "Car"}
PrizeQuantityInputs ==
    {[t |-> "number", v |-> n] : n \in 0..MaxQuantity}
        \cup {[t |-> "string", v |-> s] : s \in {"2", "1.5", " "}}

\* String.prototype.trim on the strings of the model.
Trim(str) == IF str = " " THEN "" ELSE str

\* The id prisma.prize.create generates for the prize the handler creates.
NewPrizeId == "pD"

\* The quantity of the body as a number (in tenths): a number as it is, a
\* non-blank string through Number(), anything else NaN.
PrizeQuantity(raw) ==
    IF raw.t = "number" THEN [nan |-> FALSE, tenths |-> raw.v * 10]
    ELSE IF Trim(raw.v) # "" THEN CoerceNumber(raw)
    ELSE [nan |-> TRUE, tenths |-> 0]

\* Number.isInteger(quantity)
IsInteger(n) == ~n.nan /\ n.tenths % 10 = 0

\* Faulty variant of ExceedsEligible: the bound is not checked.
ExceedsEligibleUnchecked(quantity, eligibleCount) == FALSE

\* The guard of the check against the eligible count.
ExceedsEligible(quantity, eligibleCount) == quantity > eligibleCount

\* prisma.contestant.count({ where: { sessionId, winner: null } })
EligibleCount(sid) == Cardinality(EligibleRows(sid))

PrizeRespond(status, error) ==
    prizePost' = [prizePost EXCEPT !.pc = "done", !.status = status, !.error = error]

\* The request arrives; the session lookup.
PrizePostFindSession ==
    /\ prizePost.pc = "start"
    /\ \E sid \in SessionIds, name \in PrizeNameInputs, q \in PrizeQuantityInputs :
        prizePost' = [prizePost EXCEPT
            !.sessionId = sid, !.name = name, !.quantity = q,
            !.pc = IF SessionFindUnique(sid) THEN "validate" ELSE "done",
            !.status = IF SessionFindUnique(sid) THEN 0 ELSE 404,
            !.error = IF SessionFindUnique(sid) THEN "" ELSE "Session not found"]
    /\ UNCHANGED <<store, drawVars, prizesGet, importPost, sessionPost, reportGet, reads>>

\* req.json() and the checks of name and quantity.
PrizePostValidate ==
    /\ prizePost.pc = "validate"
    /\ LET name == Trim(prizePost.name)
           quantity == PrizeQuantity(prizePost.quantity)
       IN  IF name = "" THEN PrizeRespond(400, "Prize name is required")
           ELSE IF ~IsInteger(quantity) THEN PrizeRespond(400, "Quantity must be an integer")
           ELSE IF quantity.tenths < 10 THEN PrizeRespond(400, "Quantity must be at least 1")
           ELSE prizePost' = [prizePost EXCEPT !.pc = "count"]
    /\ UNCHANGED <<store, drawVars, prizesGet, importPost, sessionPost, reportGet, reads>>

\* The eligible count and the check against it.
PrizePostCount ==
    /\ prizePost.pc = "count"
    /\ LET eligibleCount == EligibleCount(prizePost.sessionId)
           quantity == PrizeQuantity(prizePost.quantity).tenths \div 10
       IN  IF ExceedsEligible(quantity, eligibleCount)
              THEN prizePost' = [prizePost EXCEPT
                      !.eligibleCount = eligibleCount, !.pc = "done", !.status = 400,
                      !.error = "Quantity cannot exceed eligible contestants"]
              ELSE prizePost' = [prizePost EXCEPT
                      !.eligibleCount = eligibleCount, !.pc = "create"]
    /\ UNCHANGED <<store, drawVars, prizesGet, importPost, sessionPost, reportGet, reads>>

\* prisma.prize.create and the 200 response.
PrizePostCreate ==
    /\ prizePost.pc = "create"
    /\ prizes' = prizes \cup
          {[id |-> NewPrizeId, sessionId |-> prizePost.sessionId,
            name |-> Trim(prizePost.name),
            quantity |-> PrizeQuantity(prizePost.quantity).tenths \div 10]}
    /\ prizePost' = [prizePost EXCEPT !.pc = "done", !.status = 200, !.id = NewPrizeId]
    /\ UNCHANGED <<sessions, contestants, draws, winners, drawVars, prizesGet,
                   importPost, sessionPost, reportGet, reads>>

PrizePostStep ==
    \/ PrizePostFindSession
    \/ PrizePostValidate
    \/ PrizePostCount
    \/ PrizePostCreate

(* ---------------------------- GET .../prizes ---------------------------- *)

\* prisma.draw.findMany({ where: { sessionId }, select: { prizeId, _count } }).
DrawCounts(sid) ==
    {[id |-> d.id, prizeId |-> d.prizeId,
      winners |-> Cardinality({w \in winners : w.drawId = d.id})] :
        d \in {x \in draws : x.sessionId = sid}}

RECURSIVE SumWinners(_)
SumWinners(counts) ==
    IF counts = {} THEN 0
    ELSE LET d == CHOOSE d \in counts : TRUE
         IN  d.winners + SumWinners(counts \ {d})

\* Faulty variant of Drawn: the draws are counted, not their winners.
DrawnByDraws(drawCounts, pid) ==
    Cardinality({d \in drawCounts : d.prizeId = pid})

\* drawnMap.get(prize.id) ?? 0
Drawn(drawCounts, pid) == SumWinners({d \in drawCounts : d.prizeId = pid})

\* Math.max(prize.quantity - drawn, 0)
Remaining(quantity, drawn) == IF quantity - drawn > 0 THEN quantity - drawn ELSE 0

\* One entry of the listing.
PrizeEntry(p, drawCounts) ==
    [id |-> p.id, name |-> p.name, quantity |-> p.quantity,
     alreadyDrawn |-> Drawn(drawCounts, p.id),
     remaining |-> Remaining(p.quantity, Drawn(drawCounts, p.id))]

\* The request arrives; the session lookup.
PrizesGetFindSession ==
    /\ prizesGet.pc = "start"
    /\ \E sid \in SessionIds :
        prizesGet' = [prizesGet EXCEPT
            !.sessionId = sid,
            !.pc = IF SessionFindUnique(sid) THEN "findPrizes" ELSE "done",
            !.status = IF SessionFindUnique(sid) THEN 0 ELSE 404]
    /\ UNCHANGED <<store, drawVars, prizePost, importPost, sessionPost, reportGet, reads>>

\* prisma.prize.findMany({ where: { sessionId } }); the order of the rows is
\* not part of the model.
PrizesGetFindPrizes ==
    /\ prizesGet.pc = "findPrizes"
    /\ prizesGet' = [prizesGet EXCEPT
          !.prizes = {p \in prizes : p.sessionId = prizesGet.sessionId},
          !.pc = "findDraws"]
    /\ UNCHANGED <<store, drawVars, prizePost, importPost, sessionPost, reportGet, reads>>

\* prisma.draw.findMany, the drawn map and the response.
PrizesGetFindDraws ==
    /\ prizesGet.pc = "findDraws"
    /\ LET drawCounts == DrawCounts(prizesGet.sessionId)
       IN  prizesGet' = [prizesGet EXCEPT
              !.listing = {PrizeEntry(p, drawCounts) : p \in prizesGet.prizes},
              !.status = 200, !.pc = "done"]
    /\ UNCHANGED <<store, drawVars, prizePost, importPost, sessionPost, reportGet, reads>>

PrizesGetStep ==
    \/ PrizesGetFindSession
    \/ PrizesGetFindPrizes
    \/ PrizesGetFindDraws

\* Draw requests to session s1 on a prize of it, with a JSON-number quantity
\* of at least 1.
DrawInputsOfS1(r) ==
    /\ sessionId'[r] = "s1"
    /\ body'[r].prizeId \in {"pA", "pB", NewPrizeId}
    /\ body'[r].quantity \in {[t |-> "number", v |-> n] : n \in 1..MaxQuantity}

\* One draw on a prize of session s1.
NextOne == DrawStep("r1") /\ DrawInputsOfS1("r1")

SpecOne == Init /\ [][NextOne]_vars

\* Two draws on prizes of session s1, concurrently.
NextPair == \E r \in Requests : DrawStep(r) /\ DrawInputsOfS1(r)

SpecPair == Init /\ [][NextPair]_vars

\* Draw requests to session s1 on one of its prizes, with a JSON-number
\* quantity of at least 1; a resubmitted draw has the session and the body of
\* the request it repeats.
DrawInputsValid(r) ==
    /\ sessionId'[r] = "s1"
    /\ body'[r].prizeId \in {"pA", "pB"}
    /\ body'[r].quantity \in {[t |-> "number", v |-> n] : n \in 1..MaxQuantity}
    /\ body[r] # NoBody => body'[r] = body[r]

\* Faulty variant of Resubmit: the caller's retry runs the transaction again
\* on the contestants that were selected before.
ResubmitTransaction(r) ==
    /\ pc[r] = "done" /\ response[r].status = 409
    /\ pc' = [pc EXCEPT ![r] = "txDrawCreate"]
    /\ calls' = [calls EXCEPT ![r] = SubSeq(@, 1, 3)]
    /\ txCalls' = [txCalls EXCEPT ![r] = <<>>]
    /\ createdDraw' = [createdDraw EXCEPT ![r] = NoDraw]
    /\ UNCHANGED others
    /\ UNCHANGED <<store, sessionId, body, response, parsed, prize,
                   eligibleContestants, selected>>

\* The caller that received 409 submits its draw again, as a new request: the
\* form keeps the prize and the quantity, and the caller keeps the 409 until
\* the new request is answered.
Resubmit(r) ==
    /\ pc[r] = "done" /\ response[r].status = 409
    /\ pc' = [pc EXCEPT ![r] = "start"]
    /\ calls' = [calls EXCEPT ![r] = <<>>]
    /\ txCalls' = [txCalls EXCEPT ![r] = <<>>]
    /\ parsed' = [parsed EXCEPT ![r] = NoParsed]
    /\ prize' = [prize EXCEPT ![r] = NoPrize]
    /\ eligibleContestants' = [eligibleContestants EXCEPT ![r] = <<>>]
    /\ selected' = [selected EXCEPT ![r] = <<>>]
    /\ createdDraw' = [createdDraw EXCEPT ![r] = NoDraw]
    /\ UNCHANGED others
    /\ UNCHANGED <<store, sessionId, body, response>>

\* Two callers, each with one draw, that resubmit on 409.
NextRetry ==
    \E r \in Requests :
        \/ DrawStep(r) /\ DrawInputsValid(r)
        \/ Resubmit(r)

\* The runtime resumes every handler, the store answers every call, and every
\* caller that received 409 does resubmit.
SpecRetry ==
    /\ Init /\ [][NextRetry]_vars
    /\ \A r \in Requests :
          /\ WF_vars(DrawStep(r) /\ DrawInputsValid(r))
          /\ WF_vars(Resubmit(r))

\* Draws and the creation of a prize, concurrently.
NextPrizes ==
    \/ DrawStep("r1") /\ DrawInputsOfS1("r1")
    \/ PrizePostStep

SpecPrizes == Init /\ [][NextPrizes]_vars

\* Draws and the prize listing, concurrently.
NextListing ==
    \/ \E r \in Requests : DrawStep(r) /\ DrawInputsOfS1(r)
    \/ PrizesGetStep

SpecListing == Init /\ [][NextListing]_vars

(* ------------------- GET .../report.csv and report.txt ------------------ *)

\* The name a prize is renamed to.
RenamedTo == "Gift"

\* A prize is renamed.  No handler of the application updates a Prize row; the
\* rename is the later change of the row's name that the data model provides
\* the Winner.prizeName copy for.
RenamePrize ==
    /\ \A p \in prizes : p.name # RenamedTo
    /\ \E p \in prizes :
        /\ prizes' = (prizes \ {p}) \cup {[p EXCEPT !.name = RenamedTo]}
    /\ UNCHANGED <<sessions, contestants, draws, winners, drawVars, others>>

\* The prize name a report shows for a draw:
\* draw.prize?.name ?? draw.winners[0]?.prizeName ?? "Prize".
ReportPrizeName(draw) ==
    LET joined == {p \in prizes : p.id = draw.prizeId}
        won == {w \in winners : w.drawId = draw.id}
    IN  IF joined # {} THEN (CHOOSE p \in joined : TRUE).name
        ELSE IF won # {} THEN (CHOOSE w \in won : TRUE).prizeName
        ELSE "Prize"

ContestantName(cid) == (CHOOSE c \in contestants : c.id = cid).name

\* The rows of report.csv below the header: one per winner.  The draw number
\* and the timestamps are not part of the model.
CsvRows(sid) ==
    {[drawId |-> d.id, prizeId |-> d.prizeId, prizeName |-> ReportPrizeName(d),
      contestantId |-> w.contestantId, contestantName |-> ContestantName(w.contestantId)] :
        <<d, w>> \in {x \in draws \X winners :
                        x[1].sessionId = sid /\ x[2].drawId = x[1].id}}

\* The draw lines of report.txt, each with the names listed under it.
TxtLines(sid) ==
    {[drawId |-> d.id, prizeName |-> ReportPrizeName(d),
      count |-> Cardinality({w \in winners : w.drawId = d.id}),
      names |-> {ContestantName(w.contestantId) : w \in {x \in winners : x.drawId = d.id}}] :
        d \in {x \in draws : x.sessionId = sid}}

\* The request arrives; the session lookup.
ReportGetFindSession ==
    /\ reportGet.pc = "start"
    /\ \E sid \in SessionIds, format \in {"csv", "txt"} :
        reportGet' = [reportGet EXCEPT
            !.sessionId = sid, !.format = format,
            !.pc = IF SessionFindUnique(sid) THEN "findDraws" ELSE "done",
            !.status = IF SessionFindUnique(sid) THEN 0 ELSE 404]
    /\ UNCHANGED <<store, drawVars, prizePost, prizesGet, importPost, sessionPost, reads>>

\* prisma.draw.findMany with its prize, winners and contestants; the response.
ReportGetFindDraws ==
    /\ reportGet.pc = "findDraws"
    /\ reportGet' = [reportGet EXCEPT
          !.lines = IF reportGet.format = "csv" THEN CsvRows(reportGet.sessionId)
                    ELSE TxtLines(reportGet.sessionId),
          !.status = 200, !.pc = "done"]
    /\ UNCHANGED <<store, drawVars, prizePost, prizesGet, importPost, sessionPost, reads>>

ReportGetStep ==
    \/ ReportGetFindSession
    \/ ReportGetFindDraws

\* A draw, a rename of one prize before or after it, and a report.
NextReports ==
    \/ DrawStep("r1") /\ DrawInputsOfS1("r1")
    \/ RenamePrize /\ pc["r1"] \in {"start", "done"}
    \/ ReportGetStep

SpecReports == Init /\ [][NextReports]_vars

(* ----------------------------- POST /api/sessions ------------------------ *)

\* name values of the body of a session creation.
SessionNameInputs == {"", "Gala"}

\* The id prisma.session.create generates for the session the handler creates.
NewSessionId == "s3"

\* The whole handler: a body without a name is a 400, anything else creates
\* the session.
SessionPostCreate ==
    /\ sessionPost.status = 0
    /\ \E name \in SessionNameInputs :
        IF name = ""
        THEN /\ sessionPost' = [status |-> 400, id |-> NULL]
             /\ UNCHANGED sessions
        ELSE /\ sessionPost' = [status |-> 200, id |-> NewSessionId]
             /\ sessions' = sessions \cup {NewSessionId}
    /\ UNCHANGED <<contestants, prizes, draws, winners, drawVars,
                   prizePost, prizesGet, importPost, reportGet, reads>>

(* -------------------- POST .../contestants/import ----------------------- *)

\* The length of the longest uploaded file, in rows.
MaxFileLen == 2

\* The name cells of an uploaded file.
RawNames == {"ann", "Fay", "fay", " "}

RECURSIVE SeqsUpTo(_, _)
SeqsUpTo(S, n) ==
    IF n = 0 THEN {<<>>}
    ELSE SeqsUpTo(S, n - 1) \cup
         {Append(q, x) : q \in {t \in SeqsUpTo(S, n - 1) : Len(t) = n - 1}, x \in S}

\* rawNames of the uploaded files.
FileInputs == SeqsUpTo(RawNames, MaxFileLen)

\* name.toLowerCase() on the names of the model.
ToLowerCase(name) ==
    CASE name = "Ann" -> "ann"
      [] name = "Bob" -> "bob"
      [] name = "Cid" -> "cid"
      [] name = "Dee" -> "dee"
      [] name = "Eve" -> "eve"
      [] name = "Fay" -> "fay"
      [] OTHER -> name

MapTrim(rawNames) == [i \in DOMAIN rawNames |-> Trim(rawNames[i])]
NonEmpty(name) == name # ""

\* rawNames.map(trim).filter(name => name.length > 0)
CleanedNames(rawNames) == SelectSeq(MapTrim(rawNames), NonEmpty)

\* The loop over cleanedNames: the first of the names equal without case stays.
RECURSIVE Dedupe(_, _)
Dedupe(names, seenNames) ==
    IF names = <<>> THEN <<>>
    ELSE IF ToLowerCase(Head(names)) \in seenNames THEN Dedupe(Tail(names), seenNames)
    ELSE <<Head(names)>> \o
         Dedupe(Tail(names), seenNames \cup {ToLowerCase(Head(names))})

\* existingContestants.map(c => c.name.toLowerCase())
ExistingLower(sid) == {ToLowerCase(c.name) : c \in {x \in contestants : x.sessionId = sid}}

\* uniqueNames.filter(name => !existingLower.has(name.toLowerCase()))
NamesToInsert(uniqueNames, existingLower) ==
    LET Absent(name) == ToLowerCase(name) \notin existingLower
    IN  SelectSeq(uniqueNames, Absent)

\* The id of the next Contestant row.
NextContestantId(rows) ==
    1 + CHOOSE m \in {c.id : c \in rows} : \A c \in rows : c.id <= m

\* prisma.contestant.createMany({ data, skipDuplicates: true }): a row whose
\* (sessionId, name) is already in the table is skipped by the unique index,
\* which compares the names as they are written.
RECURSIVE ContestantCreateMany(_, _, _)
ContestantCreateMany(rows, names, sid) ==
    IF names = <<>> THEN rows
    ELSE LET row == [id |-> NextContestantId(rows), sessionId |-> sid,
                     name |-> Head(names)]
             duplicate == \E c \in rows : c.sessionId = sid /\ c.name = Head(names)
         IN  ContestantCreateMany(IF duplicate THEN rows ELSE rows \cup {row},
                                  Tail(names), sid)

\* The form data (a form without a file is a 400), the session lookup, the cleaning of the names and the
\* removal of the duplicates of the file.
ImportFindSession(i) ==
    /\ importPost[i].pc = "start"
    /\ \E sid \in SessionIds, file \in FileInputs, uploaded \in BOOLEAN :
        /\ uploaded \/ file = <<>>
        /\ importPost' = [importPost EXCEPT ![i] =
            IF ~uploaded
            THEN [@ EXCEPT !.sessionId = sid, !.status = 400, !.pc = "done"]
            ELSE IF ~SessionFindUnique(sid)
            THEN [@ EXCEPT !.sessionId = sid, !.file = file, !.status = 404,
                           !.pc = "done"]
            ELSE IF CleanedNames(file) = <<>>
            THEN [@ EXCEPT !.sessionId = sid, !.file = file, !.status = 400,
                           !.pc = "done"]
            ELSE [@ EXCEPT !.sessionId = sid, !.file = file,
                           !.uniqueNames = Dedupe(CleanedNames(file), {}),
                           !.pc = "findExisting"]]
    /\ UNCHANGED <<store, drawVars, prizePost, prizesGet, sessionPost, reportGet, reads>>

\* prisma.contestant.findMany of the session; without a name left to insert
\* the response follows at once.
ImportFindExisting(i) ==
    /\ importPost[i].pc = "findExisting"
    /\ LET names == NamesToInsert(importPost[i].uniqueNames,
                                  ExistingLower(importPost[i].sessionId))
       IN  importPost' = [importPost EXCEPT ![i] =
               IF names = <<>>
               THEN [@ EXCEPT !.namesToInsert = names, !.inserted = 0,
                              !.status = 200, !.pc = "done"]
               ELSE [@ EXCEPT !.namesToInsert = names, !.pc = "createMany"]]
    /\ UNCHANGED <<store, drawVars, prizePost, prizesGet, sessionPost, reportGet, reads>>

\* Faulty variant of ImportCreateMany: the import replaces the contestants of
\* the session, and with them their Winner rows.
ImportCreateManyReplacing(i) ==
    /\ importPost[i].pc = "createMany"
    /\ LET sid == importPost[i].sessionId
           kept == {c \in contestants : c.sessionId # sid}
       IN  /\ contestants' = ContestantCreateMany(kept, importPost[i].namesToInsert, sid)
           /\ winners' = {w \in winners : w.contestantId \in {c.id : c \in kept}}
    /\ importPost' = [importPost EXCEPT ![i] =
          [@ EXCEPT !.inserted = Len(importPost[i].namesToInsert),
                    !.status = 200, !.pc = "done"]]
    /\ UNCHANGED <<sessions, prizes, draws, drawVars,
                   prizePost, prizesGet, sessionPost, reportGet, reads>>

\* prisma.contestant.createMany and the response.
ImportCreateMany(i) ==
    /\ importPost[i].pc = "createMany"
    /\ contestants' = ContestantCreateMany(contestants, importPost[i].namesToInsert,
                                           importPost[i].sessionId)
    /\ importPost' = [importPost EXCEPT ![i] =
          [@ EXCEPT !.inserted = Cardinality(contestants') - Cardinality(contestants),
                    !.status = 200, !.pc = "done"]]
    /\ UNCHANGED <<sessions, prizes, draws, winners, drawVars,
                   prizePost, prizesGet, sessionPost, reportGet, reads>>

ImportStep(i) ==
    \/ ImportFindSession(i)
    \/ ImportFindExisting(i)
    \/ ImportCreateMany(i)

\* Imports into session s1.
ImportInputsOfS1(i) == importPost'[i].sessionId = "s1"

\* Two CSV imports, one after another or overlapping.
NextImport == \E i \in Imports : ImportStep(i) /\ ImportInputsOfS1(i)

SpecImport == Init /\ [][NextImport]_vars

(* ------------------------- the other GET endpoints ---------------------- *)

\* GET /api/sessions, GET .../draws, GET .../draws/[drawId],
\* GET .../contestants and GET .../contestants/count.
ReadEndpoints == {"sessions", "draws", "draw", "contestants", "count"}

\* drawId values of a route; "dX" is the id of no draw.
DrawIdInputs == Requests \cup {"dX"}

\* GET .../draws: { drawCount, totalWinners }.
DrawStatus(sid) ==
    [drawCount |-> Cardinality(DrawCounts(sid)),
     totalWinners |-> SumWinners(DrawCounts(sid))]

\* prisma.draw.findFirst({ where: { id: drawId, sessionId } }).
DrawFindFirst(did, sid) == {d \in draws : d.id = did /\ d.sessionId = sid}

\* GET .../draws/[drawId]: the draw with its prize and its winners.
DrawDetail(d) ==
    [drawId |-> d.id,
     prize |-> [id |-> d.prizeId, name |-> (CHOOSE p \in prizes : p.id = d.prizeId).name],
     winners |-> {[contestantId |-> w.contestantId, name |-> ContestantName(w.contestantId)] :
                     w \in {x \in winners : x.drawId = d.id}}]

\* prizeName of a contestant of the listing: contestant.winner?.prizeName ?? null.
WinnerPrizeName(cid) ==
    IF HasWinner(cid) THEN (CHOOSE w \in winners : w.contestantId = cid).prizeName
    ELSE NULL

\* GET .../contestants on one findMany: total and eligible are counted on the
\* rows of the listing.
ContestantListing(sid) ==
    LET rows == {c \in contestants : c.sessionId = sid}
    IN  [total |-> Cardinality(rows),
         eligible |-> Cardinality({c \in rows : ~HasWinner(c.id)}),
         contestants |-> {[id |-> c.id, name |-> c.name, hasPrize |-> HasWinner(c.id),
                           prizeName |-> WinnerPrizeName(c.id)] : c \in rows}]

\* prisma.contestant.count({ where: { sessionId } }).
ContestantCount(sid) == Cardinality({c \in contestants : c.sessionId = sid})

\* The request arrives.  GET /api/sessions answers with prisma.session.findMany;
\* the other endpoints look the session up first.
ReadFindSession ==
    /\ reads.pc = "start"
    /\ \E e \in ReadEndpoints, sid \in SessionIds, did \in DrawIdInputs :
        reads' =
            IF e = "sessions"
            THEN [NoRead EXCEPT !.endpoint = e, !.status = 200, !.data = sessions,
                                !.pc = "done"]
            ELSE [NoRead EXCEPT !.endpoint = e, !.sessionId = sid,
                                !.drawId = IF e = "draw" THEN did ELSE NULL,
                                !.status = IF SessionFindUnique(sid) THEN 0 ELSE 404,
                                !.pc = IF SessionFindUnique(sid) THEN "query" ELSE "done"]
    /\ UNCHANGED <<store, drawVars, prizePost, prizesGet, importPost, sessionPost, reportGet>>

\* The query of the endpoint and its response.
ReadQuery ==
    /\ reads.pc = "query"
    /\ reads' =
          IF reads.endpoint = "draws"
          THEN [reads EXCEPT !.data = DrawStatus(reads.sessionId),
                             !.status = 200, !.pc = "done"]
          ELSE IF reads.endpoint = "contestants"
          THEN [reads EXCEPT !.data = ContestantListing(reads.sessionId),
                             !.status = 200, !.pc = "done"]
          ELSE IF reads.endpoint = "count"
          THEN [reads EXCEPT !.data = [count |-> ContestantCount(reads.sessionId)],
                             !.status = 200, !.pc = "done"]
          ELSE IF DrawFindFirst(reads.drawId, reads.sessionId) = {}
          THEN [reads EXCEPT !.status = 404, !.pc = "done"]
          ELSE [reads EXCEPT
                   !.data = DrawDetail(CHOOSE d \in DrawFindFirst(reads.drawId,
                                                                  reads.sessionId) : TRUE),
                   !.status = 200, !.pc = "done"]
    /\ UNCHANGED <<store, drawVars, prizePost, prizesGet, importPost, sessionPost, reportGet>>

ReadStep ==
    \/ ReadFindSession
    \/ ReadQuery

(* ------------- GET .../contestants with three concurrent queries -------- *)

\* The queries handed to Promise.all; the store runs each at a time of its own.
ListingQueries == {"findMany", "count", "countEligible"}

\* The handler's state before a query has returned.
NoListing(filterEligible) ==
    [filterEligible |-> filterEligible, pending |-> ListingQueries,
     contestants |-> {}, total |-> 0, eligible |-> 0]

\* prisma.contestant.findMany({ where: { sessionId, ...(filterEligible ?
\* { winner: null } : {}) }, include: { winner: true } }), mapped to the
\* entries of the response.
ListingFindMany(sid, filterEligible) ==
    {[id |-> c.id, name |-> c.name, hasPrize |-> HasWinner(c.id),
      prizeName |-> WinnerPrizeName(c.id)] :
        c \in {x \in contestants :
                  x.sessionId = sid /\ (filterEligible => ~HasWinner(x.id))}}

\* prisma.contestant.count({ where: { sessionId, winner: null } }).
ListingCountEligible(sid) == Cardinality(EligibleRows(sid))

\* The request arrives with or without ?eligible=true: session.findUnique,
\* then 404 or the three queries are sent.
ListingFindSession ==
    /\ reads.pc = "start"
    /\ \E sid \in SessionIds, filterEligible \in BOOLEAN :
        reads' = [NoRead EXCEPT !.endpoint = "listing", !.sessionId = sid,
                                !.data = NoListing(filterEligible),
                                !.status = IF SessionFindUnique(sid) THEN 0 ELSE 404,
                                !.pc = IF SessionFindUnique(sid) THEN "queries" ELSE "done"]
    /\ UNCHANGED <<store, drawVars, prizePost, prizesGet, importPost, sessionPost, reportGet>>

\* One of the pending queries runs on the store; with the last one Promise.all
\* resolves and the handler responds.
ListingQuery ==
    /\ reads.endpoint = "listing" /\ reads.pc = "queries"
    /\ \E q \in reads.data.pending :
        \E result \in
            {IF q = "findMany"
             THEN [reads.data EXCEPT
                      !.contestants = ListingFindMany(reads.sessionId,
                                                      reads.data.filterEligible)]
             ELSE IF q = "count"
             THEN [reads.data EXCEPT !.total = ContestantCount(reads.sessionId)]
             ELSE [reads.data EXCEPT !.eligible = ListingCountEligible(reads.sessionId)]} :
            reads' = [reads EXCEPT
                         !.data = [result EXCEPT !.pending = @ \ {q}],
                         !.status = IF reads.data.pending = {q} THEN 200 ELSE 0,
                         !.pc = IF reads.data.pending = {q} THEN "done" ELSE "queries"]
    /\ UNCHANGED <<store, drawVars, prizePost, prizesGet, importPost, sessionPost, reportGet>>

ListingStep ==
    \/ ListingFindSession
    \/ ListingQuery

\* A draw on session s1 and a listing request.
NextContestants ==
    \/ DrawStep("r1") /\ DrawInputsOfS1("r1")
    \/ ListingStep

SpecContestants == Init /\ [][NextContestants]_vars

(* ------------------------- all the endpoints together ------------------- *)

\* The handlers other than the draw whose request has arrived.
OthersStarted ==
    {h \in {"prizePost", "prizesGet", "import", "sessionPost", "reportGet", "reads"} :
        \/ h = "prizePost" /\ prizePost.pc # "start"
        \/ h = "prizesGet" /\ prizesGet.pc # "start"
        \/ h = "import" /\ \E i \in Imports : importPost[i].pc # "start"
        \/ h = "sessionPost" /\ sessionPost.status # 0
        \/ h = "reportGet" /\ reportGet.pc # "start"
        \/ h = "reads" /\ reads.pc # "start"}

\* A draw together with one request of one of the other endpoints: a session
\* creation, a CSV import, a prize creation or a GET.
\* No request of another endpoint than h has arrived.
OnlyOther(h) == OthersStarted \subseteq {h}

\* Imports of a file of one row.
ImportInputsOfOneRow(i) == Len(importPost'[i].file) <= 1

NextAll ==
    \/ DrawStep("r1") /\ DrawInputsOfS1("r1")
    \/ OnlyOther("sessionPost") /\ SessionPostCreate
    \/ OnlyOther("import") /\ ImportStep("i1") /\ ImportInputsOfOneRow("i1")
    \/ OnlyOther("prizePost") /\ PrizePostStep
    \/ OnlyOther("prizesGet") /\ PrizesGetStep
    \/ OnlyOther("reportGet") /\ ReportGetStep
    \/ OnlyOther("reads") /\ ReadStep

SpecAll == Init /\ [][NextAll]_vars

(* ------------------------- the session page's draw form ----------------- *)

\* The session the page shows.
PageSession == "s1"

\* The page's prizes and eligibleContestants: what its last GET .../prizes and
\* GET .../contestants returned; before that, no prize and null.
PagePrizes ==
    IF prizesGet.status = 200 /\ prizesGet.sessionId = PageSession
    THEN prizesGet.listing ELSE {}
PageEligibleKnown ==
    reads.endpoint = "contestants" /\ reads.status = 200 /\ reads.sessionId = PageSession

\* Faulty variant of FormAllows: the check against the prize's remaining is
\* missing.
FormAllowsAnyRemaining(pid, quantity) ==
    /\ \E p \in PagePrizes : p.id = pid
    /\ quantity >= 1
    /\ PageEligibleKnown => quantity <= reads.data.eligible

\* The checks of handleDrawSubmit before it sends the request: a prize of the
\* list is selected, the quantity is an integer of at least 1, at most the
\* eligible count when that is known, and at most the prize's remaining.
FormAllows(pid, quantity) ==
    /\ \E p \in PagePrizes : p.id = pid /\ quantity <= p.remaining
    /\ quantity >= 1
    /\ PageEligibleKnown => quantity <= reads.data.eligible

\* handleDrawSubmit sends POST .../draws with the selected prize and the
\* quantity as a JSON number; the request arrives.
FormSubmit(r) ==
    /\ PagePrizes # {}
    /\ PostFindSession(r)
    /\ sessionId'[r] = PageSession
    /\ body'[r].quantity.t = "number"
    /\ FormAllows(body'[r].prizeId, body'[r].quantity.v)

\* A request sent to the endpoint directly: a draw on prize pA of session s1.
DirectInputs(r) ==
    /\ sessionId'[r] = "s1"
    /\ body'[r].prizeId = "pA"
    /\ body'[r].quantity \in {[t |-> "number", v |-> n] : n \in 1..MaxQuantity}

\* The page (its two fetches and the draw r1 of its form) and a direct draw r2.
NextPage ==
    \/ FormSubmit("r1")
    \/ pc["r1"] # "start" /\ DrawStep("r1")
    \/ DrawStep("r2") /\ DirectInputs("r2")
    \/ PrizesGetStep /\ prizesGet'.sessionId = PageSession
    \/ ReadStep /\ reads'.endpoint = "contestants" /\ reads'.sessionId = PageSession

SpecPage == Init /\ [][NextPage]_vars

(* ------------------------ vocabulary of the properties ------------------ *)

Status(r) == response[r].status
Errors == {400, 404, 409}
Ids(arr) == {arr[i].id : i \in 1..Len(arr)}

\* Rows in the committed tables that request r created.
DrawsOf(r) == {d \in draws : d.id = r}
WinnersOf(r) == {w \in winners : w.drawId = r}
NoRowsOf(r) == DrawsOf(r) = {} /\ WinnersOf(r) = {}

\* The contestant is referenced by a Winner row.
Won(cid) == {w \in winners : w.contestantId = cid} # {}

\* The request has read eligibility and selected its contestants.
HasSelected(r) == "contestant.findMany" \in {calls[r][i] : i \in 1..Len(calls[r])}

\* Request r takes, in this step, the step that ends its handler.
Ends(r) == pc[r] # "done" /\ pc'[r] = "done"

\* C1: every contestant is referenced by at most one Winner row, in every
\* reachable state, whatever draws ran and however they interleaved.
C1_AtMostOneWinner ==
    \A c \in contestants :
        Cardinality({w \in winners : w.contestantId = c.id}) <= 1

\* Two requests drew from overlapping eligible sets of one session and both
\* committed.
C1_Witness ==
    \E r1, r2 \in Requests :
        /\ r1 # r2
        /\ Status(r1) = 200 /\ Status(r2) = 200
        /\ sessionId[r1] = sessionId[r2]
        /\ Ids(eligibleContestants[r1]) \cap Ids(eligibleContestants[r2]) # {}

\* C2: a request that ended with 400, 404 or 409 has no Draw row and no Winner
\* row of its own in the tables, and the step that ends it with an error leaves
\* both tables as they were.
C2_ErrorAddsNoRow ==
    /\ [](\A r \in Requests : Status(r) \in Errors => NoRowsOf(r))
    /\ [][\A r \in Requests :
            (Ends(r) /\ response'[r].status \in Errors)
                => (draws' = draws /\ winners' = winners)]_vars

\* A request ended with 409 after its transaction had created its Draw row,
\* while another request's rows are committed.
C2_Witness ==
    \E r1, r2 \in Requests :
        /\ Status(r1) = 409 /\ createdDraw[r1] # NoDraw
        /\ Status(r2) = 200 /\ WinnersOf(r2) # {}

\* C3: when the transaction writes its Winner rows and a selected contestant
\* already has a Winner row, the request ends with 409 and nothing of the
\* transaction is persisted: not its Draw row, and no Winner row, also not for
\* the selected contestants that were still free.
C3_ConflictRollsBack ==
    [][\A r \in Requests :
        (/\ pc[r] = "txWinnerCreateMany"
         /\ pc'[r] = "done"
         /\ \E cid \in Ids(selected[r]) : Won(cid))
            => /\ response'[r].status = 409
               /\ createdDraw[r] \notin draws'
               /\ \A w \in winners' : w.drawId # r
               /\ \A cid \in Ids(selected[r]) : ~Won(cid) =>
                     \A w \in winners' : w.contestantId # cid]_vars

\* A request ended with 409 although one of its selected contestants was free
\* (and still is).
C3_Witness ==
    \E r \in Requests :
        /\ Status(r) = 409
        /\ \E cid \in Ids(selected[r]) : Won(cid)
        /\ \E cid \in Ids(selected[r]) : ~Won(cid)

C5_SuccessCreatesK ==
    /\ [](\A r \in Requests :
            Status(r) = 200 =>
                /\ Cardinality(DrawsOf(r)) = 1
                /\ Cardinality(WinnersOf(r)) = parsed[r].quantity
                /\ Cardinality({w.contestantId : w \in WinnersOf(r)}) = parsed[r].quantity
                /\ \A w \in WinnersOf(r) :
                      /\ w.contestantId \in Ids(eligibleContestants[r])
                      /\ \E c \in contestants :
                            c.id = w.contestantId /\ c.sessionId = sessionId[r])
    /\ [][\A r \in Requests :
            /\ (pc[r] = "findEligible" /\ pc'[r] # "findEligible")
                  => \A cid \in Ids(eligibleContestants'[r]) : ~Won(cid)
            /\ (/\ Ends(r) /\ response'[r].status = 200
                /\ {c.id : c \in EligibleRows(sessionId[r])} = Ids(eligibleContestants[r]))
                  => Cardinality(EligibleRows(sessionId[r]))'
                        = Len(eligibleContestants[r]) - parsed[r].quantity]_vars

\* A draw of quantity 2 succeeded with nothing committed in between: the
\* session's eligible count is the count read minus 2.
C5_Witness ==
    \E r \in Requests :
        /\ Status(r) = 200
        /\ parsed[r].quantity = 2
        /\ Cardinality(WinnersOf(r)) = 2
        /\ Cardinality(EligibleRows(sessionId[r])) = Len(eligibleContestants[r]) - 2

\* C6: a request (to an existing session and prize) whose quantity is greater
\* than the number of eligible contestants it read ends with 400 and has no
\* Draw or Winner row.
C6_QuantityBound ==
    \A r \in Requests :
        (HasSelected(r) /\ parsed[r].quantity > Len(eligibleContestants[r]))
            => /\ pc[r] = "done"
               /\ Status(r) = 400
               /\ NoRowsOf(r)
               /\ createdDraw[r] = NoDraw

\* A request asked for more than the eligible contestants left after another
\* request's draw, and was answered 400.
C6_Witness ==
    \E r1, r2 \in Requests :
        /\ Status(r1) = 400
        /\ HasSelected(r1)
        /\ Len(eligibleContestants[r1]) >= 1
        /\ parsed[r1].quantity > Len(eligibleContestants[r1])
        /\ Status(r2) = 200 /\ sessionId[r2] = sessionId[r1]

\* C7: once a contestant has a Winner row, that row stays as it is, and every
\* eligibility read taken from then on leaves the contestant out of the
\* eligible set and of the selection.
C7_WinnerIsPermanent ==
    [][\A c \in contestants :
        Won(c.id) =>
            /\ {w \in winners' : w.contestantId = c.id}
                  = {w \in winners : w.contestantId = c.id}
            /\ \A r \in Requests :
                  (pc[r] = "findEligible" /\ pc'[r] # "findEligible")
                      => /\ c.id \notin Ids(eligibleContestants'[r])
                         /\ c.id \notin Ids(selected'[r])]_vars

\* A request read eligibility and selected after another request's winners
\* were committed in the same session.
C7_Witness ==
    \E r1, r2 \in Requests :
        /\ r1 # r2
        /\ Status(r1) = 200
        /\ sessionId[r2] = sessionId[r1]
        /\ selected[r2] # <<>>
        /\ Ids(eligibleContestants[r2]) \cap {w.contestantId : w \in WinnersOf(r1)} = {}

\* C8: a request whose sessionId is the id of no session ends with 404, has no
\* Draw or Winner row, and made no store call but the session lookup.
C8_UnknownSession ==
    \A r \in Requests :
        (pc[r] # "start" /\ sessionId[r] \notin sessions)
            => /\ pc[r] = "done"
               /\ response[r] = Json(404, "Session not found")
               /\ calls[r] = <<"session.findUnique">>
               /\ NoRowsOf(r)

\* A request for the unknown session, with a body that would otherwise be
\* valid, was answered 404.
C8_Witness ==
    \E r \in Requests :
        /\ sessionId[r] = "sX"
        /\ body[r].prizeId = "pA" /\ body[r].quantity = [t |-> "number", v |-> 1]
        /\ Status(r) = 404

\* The body passes validation: a non-empty prizeId and an integer quantity >= 1.
ValidBody(b) ==
    /\ b.prizeId # ""
    /\ \/ b.quantity.t = "number" /\ b.quantity.v >= 1
       \/ b.quantity.t = "string" /\ b.quantity.v = "2"

\* C9: a request to an existing session with a valid body whose prizeId is not
\* the id of a prize of that session (also when it is a prize of another
\* session) ends with 404 and has no Draw or Winner row.
C9_UnknownPrize ==
    \A r \in Requests :
        (/\ pc[r] = "done"
         /\ sessionId[r] \in sessions
         /\ ValidBody(body[r])
         /\ ~\E p \in prizes : p.id = body[r].prizeId /\ p.sessionId = sessionId[r])
            => /\ response[r] = Json(404, "Prize not found")
               /\ NoRowsOf(r)
               /\ createdDraw[r] = NoDraw

\* A request to session s1 named a prize of session s2 and was answered 404.
C9_Witness ==
    \E r \in Requests :
        /\ sessionId[r] = "s1" /\ body[r].prizeId = "pC"
        /\ ValidBody(body[r])
        /\ Status(r) = 404

\* The quantity is 0 or a string that is not an integer.
BadQuantity(b) ==
    \/ b.quantity = [t |-> "number", v |-> 0]
    \/ b.quantity.t = "string" /\ b.quantity.v \in {"1.5", "abc"}

\* C10 as stated: every request with quantity 0 or a non-integer string ends
\* with 400 without having made any store call.
C10_Original ==
    \A r \in Requests :
        (pc[r] = "done" /\ BadQuantity(body[r]))
            => (Status(r) = 400 /\ calls[r] = <<>>)

\* C10, amended: every request to an existing session with quantity 0 or a
\* non-integer string ends with 400, and the session lookup is the only store
\* call it made; this holds for each of the requests.
C10_InvalidQuantity ==
    \A r \in Requests :
        (pc[r] \notin {"start", "parse"} /\ sessionId[r] \in sessions
            /\ BadQuantity(body[r]))
            => /\ pc[r] = "done"
               /\ Status(r) = 400
               /\ calls[r] = <<"session.findUnique">>
               /\ NoRowsOf(r)

\* The same request with a bad quantity was made twice, and both were
\* answered 400.
C10_Witness ==
    \E r1, r2 \in Requests :
        /\ r1 # r2
        /\ sessionId[r1] = "s1" /\ sessionId[r2] = "s1"
        /\ body[r1] = body[r2]
        /\ body[r1].prizeId = "pA"
        /\ BadQuantity(body[r1])
        /\ Status(r1) = 400 /\ Status(r2) = 400


\* C11 as stated: the eligibility read of a draw request is made inside the
\* transaction that creates the Draw and Winner rows.
C11_Original ==
    \A r \in Requests :
        HasSelected(r) =>
            "contestant.findMany" \in {txCalls[r][i] : i \in 1..Len(txCalls[r])}

\* C11, amended: the eligibility read of a draw request is made before the
\* transaction opens and outside it; the transaction holds only the creation
\* of the Draw row and of the Winner rows.
C11_ReadOutsideTransaction ==
    \A r \in Requests :
        /\ "contestant.findMany" \notin {txCalls[r][i] : i \in 1..Len(txCalls[r])}
        /\ Status(r) \in {200, 409} =>
              /\ txCalls[r] = <<"draw.create", "winner.createMany">>
              /\ calls[r] = <<"session.findUnique", "prize.findFirst",
                              "contestant.findMany", "draw.create",
                              "winner.createMany">>

\* A request read eligibility and its transaction ended, once committed and
\* once rolled back.
C11_Witness ==
    \E r1, r2 \in Requests :
        /\ Status(r1) = 200 /\ Status(r2) = 409
        /\ HasSelected(r1) /\ HasSelected(r2)


\* The number of Winner rows over all draws of a prize.
TotalWinnersOf(pid) ==
    Cardinality({w \in winners : \E d \in draws : d.id = w.drawId /\ d.prizeId = pid})

PrizeRow(pid) == CHOOSE p \in prizes : p.id = pid

\* C12: the draw endpoint does not bound the quantity by the units the prize
\* has left: the request passes the check exactly when its quantity is at most
\* the eligible count, whatever the prize's quantity and earlier winners, and
\* a transaction that meets no taken contestant commits and adds its quantity
\* to the prize's winners.  (The witness is the state the claim says is
\* reachable: a prize with more winners than its declared quantity.)
C12_NoRemainingBound ==
    [][\A r \in Requests :
        /\ (pc[r] = "findEligible" /\ pc'[r] # "findEligible")
              => (pc'[r] = "txDrawCreate"
                    <=> parsed[r].quantity <= Cardinality(EligibleRows(sessionId[r])))
        /\ (/\ pc[r] = "txWinnerCreateMany" /\ pc'[r] = "done"
            /\ \A cid \in Ids(selected[r]) : ~Won(cid))
              => /\ response'[r].status = 200
                 /\ TotalWinnersOf(prize[r].id)'
                       = TotalWinnersOf(prize[r].id) + parsed[r].quantity]_vars

\* A prize has more winners than its declared quantity, all from requests whose
\* quantity was at most the eligible count they read.
C12_Witness ==
    \E p \in prizes :
        /\ TotalWinnersOf(p.id) > p.quantity
        /\ \A r \in Requests :
              (Status(r) = 200 /\ prize[r].id = p.id)
                  => parsed[r].quantity <= Len(eligibleContestants[r])


\* The remaining value the prize listing computes for a prize from the tables.
RemainingOf(p) == Remaining(p.quantity, Drawn(DrawCounts(p.sessionId), p.id))

\* The winners the ending draw request r produced for prize p.
ProducedFor(r, p) == IF p.id = prize[r].id THEN Len(selected[r]) ELSE 0

Max0(n) == IF n > 0 THEN n ELSE 0

GoodPrizeQuantity(raw) ==
    \/ raw.t = "number" /\ raw.v >= 1
    \/ raw.t = "string" /\ raw.v = "2"
PrizeQuantityValue(raw) == IF raw.t = "number" THEN raw.v ELSE 2

\* The Prize rows the creation request made.
CreatedPrizes == {p \in prizes : p.id = NewPrizeId}

\* C14: a prize-creation request to an existing session creates its Prize row
\* exactly when the name is not blank and the quantity is an integer, at least
\* 1 and at most the eligible count the request read (which is the session's
\* eligible count at that read); every other such request ends with 400 and
\* creates no row.  The row is not changed or checked again afterwards.
C14_PrizeCreation ==
    /\ [](/\ CreatedPrizes # {} <=> prizePost.status = 200
          /\ (prizePost.pc = "done" /\ prizePost.sessionId \in sessions) =>
                /\ prizePost.status = 200 <=>
                      /\ prizePost.name \notin {"", " "}
                      /\ GoodPrizeQuantity(prizePost.quantity)
                      /\ PrizeQuantityValue(prizePost.quantity) <= prizePost.eligibleCount
                /\ prizePost.status # 200 => prizePost.status = 400
          /\ \A p \in CreatedPrizes :
                /\ p.sessionId = prizePost.sessionId
                /\ p.quantity = PrizeQuantityValue(prizePost.quantity)
                /\ p.quantity >= 1 /\ p.quantity <= prizePost.eligibleCount)
    /\ [][/\ (prizePost.pc = "count" /\ prizePost'.pc # "count") =>
                prizePost'.eligibleCount =
                    Cardinality({c \in contestants :
                        c.sessionId = prizePost.sessionId /\ ~Won(c.id)})
          /\ CreatedPrizes # {} => prizes' = prizes]_vars

\* The prize was created with a quantity within the eligible count read, and
\* draws have since left fewer eligible contestants than its quantity.
C14_Witness ==
    \E p \in CreatedPrizes :
        /\ prizePost.status = 200
        /\ p.quantity <= prizePost.eligibleCount
        /\ p.quantity > Cardinality(EligibleRows(p.sessionId))

\* A request with a quantity above the eligible count it read was answered 400.
C14_WitnessRejected ==
    /\ prizePost.status = 400
    /\ prizePost.eligibleCount >= 1
    /\ GoodPrizeQuantity(prizePost.quantity)
    /\ PrizeQuantityValue(prizePost.quantity) > prizePost.eligibleCount


\* C15: in a report, the prize name shown for a draw is the prize's name the
\* draw took (the one copied to its Winner rows), also after the prize was
\* renamed.
C15_ReportShowsNameAtDraw ==
    reportGet.status = 200 =>
        \A line \in reportGet.lines :
            /\ line.prizeName = prize[line.drawId].name
            /\ \A w \in winners : w.drawId = line.drawId => line.prizeName = w.prizeName


\* C16: Draw rows and Winner rows are never updated or deleted, a step that
\* adds any is the step in which a draw request ends with success and adds that
\* request's rows only, and every step of a session creation, a CSV import, a
\* prize creation or a GET leaves both tables as they were.
C16_OnlyDrawsWrite ==
    [][/\ draws \subseteq draws' /\ winners \subseteq winners'
       /\ (draws' # draws \/ winners' # winners) =>
             \E r \in Requests :
                 /\ Ends(r) /\ response'[r].status = 200
                 /\ draws' \ draws = {createdDraw[r]}
                 /\ winners' \ winners = WinnerRows(selected[r], createdDraw[r], prize[r])
       /\ others' # others => (draws' = draws /\ winners' = winners)]_vars

\* A CSV import inserted a contestant into a session that has a draw with its
\* winners.
C16_Witness ==
    /\ importPost["i1"].status = 200 /\ importPost["i1"].inserted > 0
    /\ \E d \in draws, w \in winners :
          d.sessionId = importPost["i1"].sessionId /\ w.drawId = d.id

\* The store calls request r has made, and how often it made one of them.
CallsOf(r) == {calls[r][i] : i \in 1..Len(calls[r])}
TimesCalled(r, call) == Cardinality({i \in 1..Len(calls[r]) : calls[r][i] = call})

Pool(sid) == ContestantFindMany(sid)
Selections(pool, k) == {Ids(Slice(shuffled, k)) : shuffled \in shuffle(pool)}
SubsetsOfSize(S, k) == {T \in SUBSET S : Cardinality(T) = k}

\* C18: for the eligible pool of every session in every reachable state, of
\* size N, and every k in 1..N, the selections shuffle and slice(0, k) can make
\* are exactly the subsets of size k of the pool, each selection is an array of
\* k elements of the pool, and what a request selected is one of them.
C18_EverySubset ==
    /\ \A pool \in {Pool(sid) : sid \in sessions} :
          \A k \in 1..Len(pool) :
              /\ Selections(pool, k) = SubsetsOfSize(Ids(pool), k)
              /\ \A shuffled \in shuffle(pool) :
                    /\ Len(Slice(shuffled, k)) = k
                    /\ \A i \in 1..k : \E j \in 1..Len(pool) :
                          Slice(shuffled, k)[i] = pool[j]
    /\ \A r \in Requests :
          (HasSelected(r) /\ Status(r) # 400) =>
              /\ Len(selected[r]) = parsed[r].quantity
              /\ Ids(selected[r]) \in Selections(eligibleContestants[r], parsed[r].quantity)

\* A request selected more than one contestant but not all of a pool of
\* NumContestants, and not the ones the pool starts with.
C18_Witness ==
    \E r \in Requests :
        /\ HasSelected(r) /\ Status(r) # 400
        /\ Len(eligibleContestants[r]) = NumContestants
        /\ Len(selected[r]) > 1 /\ Len(selected[r]) < NumContestants
        /\ selected[r][1] # eligibleContestants[r][1]
        /\ selected[r][2] # eligibleContestants[r][2]

\* The arrangements of the elements of an array.
Arrangements(arr) ==
    {[i \in 1..Len(arr) |-> arr[f[i]]] :
        f \in {g \in [1..Len(arr) -> 1..Len(arr)] :
                 \A a, b \in 1..Len(arr) : g[a] = g[b] => a = b}}

\* The runs of the loop on arr, each given by its values of j, that return perm.
RunsReturning(arr, perm) ==
    {choice \in Choices(Len(arr)) : ShuffleWith(arr, Len(arr), choice) = perm}

\* C19: the values of j of a round are equally likely and the rounds are
\* independent, so the runs of the loop are equally likely; every permutation
\* of the eligible pool is returned by exactly one run, so the permutations
\* are equally likely too.  The arrays shuffle returns are those of the runs.
C19_EqualChances ==
    \A pool \in {Pool(sid) : sid \in sessions} :
        /\ shuffle(pool) =
              {ShuffleWith(pool, Len(pool), choice) : choice \in Choices(Len(pool))}
        /\ \A perm \in Arrangements(pool) :
              Cardinality(RunsReturning(pool, perm)) = 1

\* A request shuffled a pool of NumContestants and selected all of it with the
\* last of the pool first.
C19_Witness ==
    \E r \in Requests :
        /\ HasSelected(r) /\ Status(r) # 400
        /\ Len(eligibleContestants[r]) = NumContestants
        /\ Len(selected[r]) = NumContestants
        /\ selected[r][1] = eligibleContestants[r][NumContestants]

\* C20: after any sequence of CSV imports into a session, overlapping or not,
\* no two contestants of the session have names that are equal without case,
\* and an import that inserted rows left no name of its file out that no
\* contestant of the session matches without case.
C20_CaseInsensitiveUnique ==
    /\ \A c1, c2 \in contestants :
          (c1 # c2 /\ c1.sessionId = c2.sessionId)
              => ToLowerCase(c1.name) # ToLowerCase(c2.name)
    /\ \A i \in Imports :
          importPost[i].status = 200 =>
              \A k \in DOMAIN importPost[i].uniqueNames :
                  \E c \in contestants :
                      /\ c.sessionId = importPost[i].sessionId
                      /\ ToLowerCase(c.name) = ToLowerCase(importPost[i].uniqueNames[k])


\* The store calls of the draw handler in the order of its code.
CallOrder ==
    <<"session.findUnique", "prize.findFirst", "contestant.findMany",
      "draw.create", "winner.createMany">>

\* The body names a prize of the request's session.
KnownPrize(r) == \E p \in prizes : p.id = body[r].prizeId /\ p.sessionId = sessionId[r]

\* The request ended without a write.
NoWriteOf(r) == txCalls[r] = <<>> /\ createdDraw[r] = NoDraw /\ NoRowsOf(r)

\* C21: the draw request checks session, body, prize and eligible count in
\* this order.  Its store calls are a prefix of CallOrder; an unknown session
\* is a 404 whatever the body; with a known session a body that fails
\* validation is a 400 after the session lookup alone, whatever the prizeId;
\* with a valid body an unknown prize is a 404 without a contestant read,
\* whatever the quantity; each of these, and the 400 of the eligible count,
\* comes before any write.
C21_CheckOrder ==
    \A r \in Requests :
        /\ calls[r] = SubSeq(CallOrder, 1, Len(calls[r]))
        /\ pc[r] = "done" =>
              /\ sessionId[r] \notin sessions =>
                    /\ response[r] = Json(404, "Session not found")
                    /\ calls[r] = <<"session.findUnique">>
              /\ (sessionId[r] \in sessions /\ ~ValidBody(body[r])) =>
                    /\ Status(r) = 400
                    /\ calls[r] = <<"session.findUnique">>
              /\ (sessionId[r] \in sessions /\ ValidBody(body[r]) /\ ~KnownPrize(r)) =>
                    /\ response[r] = Json(404, "Prize not found")
                    /\ calls[r] = <<"session.findUnique", "prize.findFirst">>
              /\ Status(r) \in {400, 404} => NoWriteOf(r)

\* A request with an unknown session and a body that fails validation was
\* answered 404; another with a known session, an unknown prize and the
\* quantity 0 was answered 400 after the session lookup alone.
C21_Witness ==
    \E r1, r2 \in Requests :
        /\ sessionId[r1] = "sX" /\ ~ValidBody(body[r1]) /\ Status(r1) = 404
        /\ sessionId[r2] = "s1" /\ body[r2].prizeId = "pX"
        /\ body[r2].quantity = [t |-> "number", v |-> 0]
        /\ Status(r2) = 400 /\ calls[r2] = <<"session.findUnique">>

\* A request to session s2, which has one eligible contestant, named an unknown
\* prize with quantity 2 and was answered 404.
C21_WitnessPrize ==
    \E r \in Requests :
        /\ sessionId[r] = "s2" /\ body[r].prizeId = "pX"
        /\ body[r].quantity = [t |-> "number", v |-> 2]
        /\ Len(ContestantFindMany("s2")) < 2
        /\ response[r] = Json(404, "Prize not found")


\* The request has selected contestants and gone on to its transaction.
InTransaction(r) == HasSelected(r) /\ selected[r] # <<>>

\* C22: two draw requests of the same session whose selected contestants are
\* disjoint both end with 200 and have a Winner row for each contestant they
\* selected, on the same prize or on different ones and however their steps
\* interleave; while a request has not ended its next step can be taken
\* whatever the other one is doing.
C22_DisjointBothSucceed ==
    /\ \A r \in Requests : pc[r] # "done" => ENABLED DrawStep(r)
    /\ \A r1, r2 \in Requests :
          (/\ r1 # r2
           /\ pc[r1] = "done" /\ pc[r2] = "done"
           /\ InTransaction(r1) /\ InTransaction(r2)
           /\ sessionId[r1] = sessionId[r2]
           /\ Ids(selected[r1]) \cap Ids(selected[r2]) = {})
              => /\ Status(r1) = 200 /\ Status(r2) = 200
                 /\ {w.contestantId : w \in WinnersOf(r1)} = Ids(selected[r1])
                 /\ {w.contestantId : w \in WinnersOf(r2)} = Ids(selected[r2])

\* Two requests on different prizes read the same pool of NumContestants,
\* selected disjoint contestants and both succeeded.
C22_Witness ==
    \E r1, r2 \in Requests :
        /\ prize[r1].id = "pA" /\ prize[r2].id = "pB"
        /\ Len(eligibleContestants[r1]) = NumContestants
        /\ eligibleContestants[r2] = eligibleContestants[r1]
        /\ Ids(selected[r1]) \cap Ids(selected[r2]) = {}
        /\ Status(r1) = 200 /\ Status(r2) = 200
        /\ Cardinality(winners) = Len(selected[r1]) + Len(selected[r2])

\* The same on one prize.
C22_WitnessSamePrize ==
    \E r1, r2 \in Requests :
        /\ r1 # r2
        /\ prize[r1].id = "pB" /\ prize[r2].id = "pB"
        /\ eligibleContestants[r2] = eligibleContestants[r1]
        /\ Ids(selected[r1]) \cap Ids(selected[r2]) = {}
        /\ Status(r1) = 200 /\ Status(r2) = 200


\* The response that ends a caller's draw: success, or the 400 of the eligible
\* count.
Settled(r) ==
    /\ pc[r] = "done"
    /\ \/ Status(r) = 200
       \/ response[r] = Json(400, "Requested quantity exceeds eligible contestants")

ListedIds(res) == {res.winners[i].contestantId : i \in 1..Len(res.winners)}

\* C24: in the response of a successful draw eligibleBefore is the number of
\* eligible contestants the request read, the winners list has
\* requestedQuantity entries, all for different contestants, with
\* requestedQuantity <= eligibleBefore, the listed contestant ids are those of
\* the Winner rows of the returned drawId, and every entry carries the returned
\* prize name, which is also the name on the Winner rows.
C24_SuccessResponse ==
    \A r \in Requests :
        Status(r) = 200 =>
            /\ DrawResponse(r).eligibleBefore = Len(eligibleContestants[r])
            /\ DrawResponse(r).requestedQuantity = parsed[r].quantity
            /\ Len(DrawResponse(r).winners) = DrawResponse(r).requestedQuantity
            /\ Cardinality(ListedIds(DrawResponse(r))) = DrawResponse(r).requestedQuantity
            /\ DrawResponse(r).requestedQuantity <= DrawResponse(r).eligibleBefore
            /\ ListedIds(DrawResponse(r)) =
                  {w.contestantId : w \in {x \in winners : x.drawId = DrawResponse(r).drawId}}
            /\ \E d \in draws : d.id = DrawResponse(r).drawId
            /\ \A i \in 1..Len(DrawResponse(r).winners) :
                  /\ DrawResponse(r).winners[i].prizeName = DrawResponse(r).prize.name
                  /\ \E w \in winners :
                        /\ w.contestantId = DrawResponse(r).winners[i].contestantId
                        /\ w.prizeName = DrawResponse(r).winners[i].prizeName

\* A draw of two of the three eligible contestants it read succeeded while the
\* other request's draw had committed in between.
C24_Witness ==
    \E r, q \in Requests :
        /\ Status(r) = 200 /\ Status(q) = 200 /\ r # q
        /\ DrawResponse(r).requestedQuantity = 2
        /\ DrawResponse(r).eligibleBefore = NumContestants
        /\ Cardinality(EligibleRows(sessionId[r])) < NumContestants - 2


\* The remaining the page holds for a prize.
PageRemaining(pid) == (CHOOSE p \in PagePrizes : p.id = pid).remaining

\* C25: in the step in which the form sends its draw request the quantity is
\* at most the remaining the page last fetched for the selected prize, and at
\* most the eligible count the page last fetched.  (That a draw sent through
\* the form can still bring the prize's winners above its quantity is the
\* state C25_Witness.)
C25_FormChecksFetched ==
    [][(pc["r1"] = "start" /\ pc'["r1"] # "start") =>
          /\ \E p \in PagePrizes : p.id = body'["r1"].prizeId
          /\ body'["r1"].quantity.v <= PageRemaining(body'["r1"].prizeId)
          /\ PageEligibleKnown => body'["r1"].quantity.v <= reads.data.eligible]_vars

\* The page fetched prizes and contestants, a direct request drew on prize pA,
\* and the draw the form then sent on pA, within the remaining and the
\* eligible count the page held, succeeded: pA has more winners than its
\* quantity.
C25_Witness ==
    /\ PageEligibleKnown /\ PagePrizes # {}
    /\ Status("r1") = 200 /\ Status("r2") = 200
    /\ prize["r1"].id = "pA"
    /\ parsed["r1"].quantity <= PageRemaining("pA")
    /\ parsed["r1"].quantity <= reads.data.eligible
    /\ TotalWinnersOf("pA") > PrizeRow("pA").quantity


\* C26: every committed Draw row has at least one Winner row, and as many
\* Winner rows as the quantity of the request that created it.
C26_DrawHasItsWinners ==
    \A d \in draws :
        /\ WinnersOf(d.id) # {}
        /\ Cardinality(WinnersOf(d.id)) = parsed[d.id].quantity

\* One request committed a draw of two winners, the other one's transaction
\* was rolled back and left no Draw row.
C26_Witness ==
    \E r \in Requests, q \in Requests :
        /\ Status(r) = 200 /\ parsed[r].quantity = 2 /\ DrawsOf(r) # {}
        /\ Cardinality(WinnersOf(r)) = 2
        /\ Status(q) = 409 /\ DrawsOf(q) = {}


\* C27: the contestant of every Winner row belongs to the session of the row's
\* Draw, and the prize of every Draw row belongs to the Draw's session.
C27_RowsOfOneSession ==
    /\ \A w \in winners :
           \E d \in draws, c \in contestants :
               /\ d.id = w.drawId /\ c.id = w.contestantId
               /\ c.sessionId = d.sessionId
    /\ \A d \in draws :
           \E p \in prizes : p.id = d.prizeId /\ p.sessionId = d.sessionId

\* Draws of both sessions are committed, each with winners.
C27_Witness ==
    \E r \in Requests, q \in Requests :
        /\ DrawsOf(r) # {} /\ sessionId[r] = "s1" /\ WinnersOf(r) # {}
        /\ DrawsOf(q) # {} /\ sessionId[q] = "s2" /\ WinnersOf(q) # {}


\* C28: for every session, the contestants listing's total minus its eligible
\* equals totalWinners of the draws status, both taken on the same state of
\* the store.
C28_WinnersAreIneligible ==
    \A sid \in sessions :
        \A listing \in {ContestantListing(sid)}, status \in {DrawStatus(sid)} :
            listing.total - listing.eligible = status.totalWinners

\* Two draws of session s1 are committed with one winner each, one contestant
\* is still eligible.
C28_Witness ==
    /\ DrawStatus("s1").drawCount = 2
    /\ DrawStatus("s1").totalWinners = 2
    /\ ContestantListing("s1").eligible = ContestantListing("s1").total - 2
    /\ ContestantListing("s1").eligible >= 1


\* The response of the listing of all contestants has been sent.
ListingAnswered ==
    /\ reads.endpoint = "listing" /\ reads.status = 200
    /\ ~reads.data.filterEligible

\* C29: in the response of the unfiltered contestants listing, total is the
\* number of contestants listed and eligible is the number of listed
\* contestants with hasPrize false, also when a draw commits while the
\* response is computed.
C29_ListingConsistent ==
    ListingAnswered =>
        /\ reads.data.total = Cardinality(reads.data.contestants)
        /\ reads.data.eligible =
              Cardinality({c \in reads.data.contestants : ~c.hasPrize})

\* The part of C29 that holds while only draws run: total is the number of
\* contestants listed.
C29_TotalIsListed ==
    ListingAnswered => reads.data.total = Cardinality(reads.data.contestants)

=============================================================================
